---- MODULE Spec2Model ----
(***************************************************************************)
(* Model of the test-support code of the ParaBank Playwright suite:        *)
(*   - utils/helpers.js    : the credential store (credentials.json)       *)
(*   - utils/api-helper.js : the HTTP request adapter                      *)
(* JavaScript values, JSON texts and the JSON conversions are modelled at  *)
(* token level so that a write followed by a read is a real round trip.    *)
(***************************************************************************)
EXTENDS Integers, Sequences, FiniteSets, TLC

(***************************************************************************)
(* Bounds of the model.                                                    *)
(***************************************************************************)
\* calls of the credential store made in one run of the suite
MaxCalls == 2
\* last millisecond the system clock can show during a run
MaxClock == 0
\* number of distinct identities generateRandomUser can return
NumIdentities == 2

(***************************************************************************)
(* JavaScript values.                                                      *)
(***************************************************************************)
Undefined == [t |-> "undefined"]
Null == [t |-> "null"]
Str(s) == [t |-> "string", s |-> s]
Num(n) == [t |-> "number", n |-> n]
Arr(a) == [t |-> "array", a |-> a]
\* an object is the sequence of its <<key, value>> properties, in insertion order
Obj(p) == [t |-> "object", p |-> p]
\* a string held as the text it was read from (a sequence of tokens)
Text(toks) == [t |-> "text", toks |-> toks]

IsArray(v) == v.t = "array"

\* obj[key]: the value of the property, undefined when the object has none
RECURSIVE Lookup(_, _, _)
Lookup(p, key, i) ==
    IF i = 0 THEN Undefined
    ELSE IF p[i][1] = key THEN p[i][2]
    ELSE Lookup(p, key, i - 1)

Get(v, key) == IF v.t = "object" THEN Lookup(v.p, key, Len(v.p)) ELSE Undefined

HasKey(v, key) == v.t = "object" /\ \E i \in 1..Len(v.p) : v.p[i][1] = key

\* obj[key] = val: replaces the property in place, or adds it last
SetProp(p, key, val) ==
    IF \E i \in 1..Len(p) : p[i][1] = key
    THEN [i \in 1..Len(p) |-> IF p[i][1] = key THEN <<key, val>> ELSE p[i]]
    ELSE Append(p, <<key, val>>)

(***************************************************************************)
(* JSON texts: sequences of tokens.                                        *)
(***************************************************************************)
LB == [k |-> "["]
RB == [k |-> "]"]
LC == [k |-> "{"]
RC == [k |-> "}"]
Comma == [k |-> ","]
Colon == [k |-> ":"]
WS == [k |-> "ws"]
NullTok == [k |-> "null"]
StrTok(s) == [k |-> "str", s |-> s]
NumTok(n) == [k |-> "num", n |-> n]
\* a bare word, as in a plain-text message: no JSON value starts with it
Word(s) == [k |-> "word", s |-> s]

\* String.prototype.trim, at token level: drops leading and trailing whitespace
RECURSIVE TrimLeft(_)
TrimLeft(toks) ==
    IF toks # <<>> /\ Head(toks).k = "ws" THEN TrimLeft(Tail(toks)) ELSE toks

RECURSIVE TrimRight(_)
TrimRight(toks) ==
    IF toks # <<>> /\ toks[Len(toks)].k = "ws"
    THEN TrimRight(SubSeq(toks, 1, Len(toks) - 1))
    ELSE toks

Trim(toks) == TrimRight(TrimLeft(toks))

RECURSIVE SkipWs(_, _)
SkipWs(toks, i) ==
    IF i <= Len(toks) /\ toks[i].k = "ws" THEN SkipWs(toks, i + 1) ELSE i

ParseFail == [ok |-> FALSE, v |-> Undefined, n |-> 0]
ParseOk(v, n) == [ok |-> TRUE, v |-> v, n |-> n]

\* JSON.parse: a recursive-descent parse of the token sequence
RECURSIVE ParseValue(_, _)
RECURSIVE ParseElems(_, _, _)
RECURSIVE ParseMembers(_, _, _)

ParseValue(toks, i0) ==
    LET i == SkipWs(toks, i0) IN
    IF i > Len(toks) THEN ParseFail
    ELSE CASE toks[i].k = "str" -> ParseOk(Str(toks[i].s), i + 1)
           [] toks[i].k = "num" -> ParseOk(Num(toks[i].n), i + 1)
           [] toks[i].k = "null" -> ParseOk(Null, i + 1)
           [] toks[i].k = "[" ->
                LET j == SkipWs(toks, i + 1) IN
                IF j <= Len(toks) /\ toks[j].k = "]"
                THEN ParseOk(Arr(<<>>), j + 1)
                ELSE ParseElems(toks, i + 1, <<>>)
           [] toks[i].k = "{" ->
                LET j == SkipWs(toks, i + 1) IN
                IF j <= Len(toks) /\ toks[j].k = "}"
                THEN ParseOk(Obj(<<>>), j + 1)
                ELSE ParseMembers(toks, i + 1, <<>>)
           [] OTHER -> ParseFail

ParseElems(toks, i, acc) ==
    LET r == ParseValue(toks, i) IN
    IF ~r.ok THEN ParseFail
    ELSE LET j == SkipWs(toks, r.n) IN
         IF j > Len(toks) THEN ParseFail
         ELSE IF toks[j].k = "," THEN ParseElems(toks, j + 1, Append(acc, r.v))
         ELSE IF toks[j].k = "]" THEN ParseOk(Arr(Append(acc, r.v)), j + 1)
         ELSE ParseFail

ParseMembers(toks, i0, acc) ==
    LET i == SkipWs(toks, i0) IN
    IF i > Len(toks) \/ toks[i].k # "str" THEN ParseFail
    ELSE LET c == SkipWs(toks, i + 1) IN
         IF c > Len(toks) \/ toks[c].k # ":" THEN ParseFail
         ELSE LET r == ParseValue(toks, c + 1) IN
              IF ~r.ok THEN ParseFail
              ELSE LET j == SkipWs(toks, r.n)
                       p == SetProp(acc, toks[i].s, r.v)
                   IN IF j > Len(toks) THEN ParseFail
                      ELSE IF toks[j].k = "," THEN ParseMembers(toks, j + 1, p)
                      ELSE IF toks[j].k = "}" THEN ParseOk(Obj(p), j + 1)
                      ELSE ParseFail

\* [ok |-> TRUE, v |-> value], or [ok |-> FALSE] where JSON.parse throws SyntaxError
JSONparse(toks) ==
    LET r == ParseValue(toks, 1) IN
    IF r.ok /\ SkipWs(toks, r.n) > Len(toks)
    THEN [ok |-> TRUE, v |-> r.v]
    ELSE [ok |-> FALSE, v |-> Undefined]

\* JSON.stringify(value, null, 2): properties whose value is undefined are
\* left out, an undefined array element is written as null
IsDefined(pr) == pr[2].t # "undefined"

RECURSIVE Serialize(_)
RECURSIVE SerializeElems(_, _)
RECURSIVE SerializeMembers(_, _)

Serialize(v) ==
    CASE v.t = "string" -> <<StrTok(v.s)>>
      [] v.t = "number" -> <<NumTok(v.n)>>
      [] v.t = "null" -> <<NullTok>>
      [] v.t = "undefined" -> <<NullTok>>
      [] v.t = "array" ->
           IF v.a = <<>> THEN <<LB, RB>>
           ELSE <<LB, WS>> \o SerializeElems(v.a, 1) \o <<WS, RB>>
      [] v.t = "object" ->
           LET p == SelectSeq(v.p, IsDefined) IN
           IF p = <<>> THEN <<LC, RC>>
           ELSE <<LC, WS>> \o SerializeMembers(p, 1) \o <<WS, RC>>

SerializeElems(a, i) ==
    IF i = Len(a) THEN Serialize(a[i])
    ELSE Serialize(a[i]) \o <<Comma, WS>> \o SerializeElems(a, i + 1)

SerializeMembers(p, i) ==
    LET m == <<StrTok(p[i][1]), Colon, WS>> \o Serialize(p[i][2]) IN
    IF i = Len(p) THEN m
    ELSE m \o <<Comma, WS>> \o SerializeMembers(p, i + 1)

JSONstringify(v) == Serialize(v)

(***************************************************************************)
(* utils/helpers.js: identities.                                           *)
(***************************************************************************)
\* an identity whose confirmation is left empty
generateRandomUserUnconfirmed(i) ==
    LET n == ToString(i)
    IN [firstName |-> "First" \o n,
        lastName |-> "Last" \o n,
        address |-> [street |-> n \o " Main St",
                     city |-> "City" \o n,
                     state |-> "State" \o n,
                     zipCode |-> "1000" \o n],
        phoneNumber |-> "555000000" \o n,
        ssn |-> "12345678" \o n,
        username |-> "user" \o n,
        password |-> "P@$$" \o "pw" \o n,
        confirmPassword |-> ""]

\* generateRandomUser(): the i-th identity the random source yields
generateRandomUser(i) ==
    LET n == ToString(i)
        password == "P@$$" \o "pw" \o n
    IN [firstName |-> "First" \o n,
        lastName |-> "Last" \o n,
        address |-> [street |-> n \o " Main St",
                     city |-> "City" \o n,
                     state |-> "State" \o n,
                     zipCode |-> "1000" \o n],
        phoneNumber |-> "555000000" \o n,
        ssn |-> "12345678" \o n,
        username |-> "user" \o n,
        password |-> password,
        confirmPassword |-> password]

Identities == {generateRandomUser(i) : i \in 1..NumIdentities}

\* account identifiers the application shows (texts read from the page)
CheckingIds == {"13344"}
SavingsIds == {"13455"}

(***************************************************************************)
(* utils/helpers.js: the credential store.                                 *)
(***************************************************************************)
VARIABLES
    file,    \* credentials.json: [exists, content], content a token sequence
    pc,      \* per worker process: where it is in its current call
    args,    \* per worker: the arguments of the running saveCredentials call
    data,    \* per worker: the local variable data of saveCredentials
    ret,     \* per worker: outcome of its last finished call
    calls    \* number of calls of the store started in this run

storeVars == <<file, pc, args, data, ret, calls>>

\* the state of the HTTP request adapter
VARIABLES
    apiPc,     \* where the running apiRequest call is
    apiIn,     \* its arguments
    sent,      \* the calls made on the transport (request.get/post/...)
    net,       \* what the transport did: outcome of the verb call and of text()
    apiOut,    \* the outcome of apiRequest
    warnings   \* number of console.warn calls

apiVars == <<apiPc, apiIn, sent, net, apiOut, warnings>>

\* the state of a test that takes a cookie from response headers
VARIABLES
    ckPc,        \* where the test is
    ckHeaders,   \* the headers of the response it got
    ckName,      \* the cookie name it asks for
    ckOut        \* what extractCookie returned

cookieVars == <<ckPc, ckHeaders, ckName, ckOut>>

\* the state of one test run by the fixture layer
VARIABLES
    tPc,          \* where the run is: resolving, a step of a fixture, the body
    tKind,        \* the test that runs
    fxState,      \* per fixture: unused, setup, ready
    fxBuilt,      \* per fixture: times its initializer was started
    fxValue,      \* per fixture: the value passed to use()
    received,     \* the values consumers were handed: <<consumer, fixture, value>>
    identities,   \* the identities generateRandomUser returned in this run
    attempts,     \* attempts made by the toPass block
    elapsed,      \* milliseconds since the toPass block started
    waits,        \* the delays the toPass block waited between attempts
    app,          \* the application under test
    appended,     \* the saveCredentials calls made in this run
    locals,       \* the account identifiers the initializers have read
    events,       \* the steps done, in order
    tError        \* the error the run failed with

fixtureVars ==
    <<tPc, tKind, fxState, fxBuilt, fxValue, received, identities, attempts,
      elapsed, waits, app, appended, locals, events, tError>>

\* one call of generateRandomUsername()
VARIABLES
    unPc,         \* where the call is: "idle", "replacing", "done"
    unBase,       \* what faker.internet.username() returned, as characters
    unOut,        \* the username returned, as characters
    unReturned    \* the usernames returned in this process run, in order

usernameVars == <<unPc, unBase, unOut, unReturned>>

\* one call of RegisterPage.fillRegistrationForm(userData)
VARIABLES
    rfPc,         \* the number of inputs filled; 0 before the call
    rfUserData,   \* the userData argument
    rfInputs      \* what each input of the form holds

formVars == <<rfPc, rfUserData, rfInputs>>

\* the runner configuration and one call of BasePage.navigateTo(urlPath)
VARIABLES
    navPc,        \* "idle", "configured", "checking", "failed", "navigated"
    navEnv,       \* process.env.APP_BASE_URL
    navConfig,    \* BASE_URL of the configuration, and the warnings it logged
    navPath,      \* the urlPath argument, as characters
    navOut        \* the URL page.goto was called with, or the error thrown

navVars == <<navPc, navEnv, navConfig, navPath, navOut>>

\* the serial login block on one worker, another test file on the other
VARIABLES
    blk,          \* the test of the block that is next: "TC-02a", "TC-03",
                  \* or "done", "skipped"
    other         \* "todo" until the other worker has called saveCredentials

loginVars == <<blk, other>>

\* what the actions of one component leave alone
notStoreVars ==
    <<apiVars, cookieVars, fixtureVars, usernameVars, formVars, navVars,
      loginVars>>
notApiVars ==
    <<storeVars, cookieVars, fixtureVars, usernameVars, formVars,
      navVars, loginVars>>
notCookieVars ==
    <<storeVars, apiVars, fixtureVars, usernameVars, formVars, navVars,
      loginVars>>
notFixtureVars ==
    <<storeVars, apiVars, cookieVars, usernameVars, formVars, navVars,
      loginVars>>
notUsernameVars ==
    <<storeVars, apiVars, cookieVars, fixtureVars, formVars, navVars,
      loginVars>>
notFormVars ==
    <<storeVars, apiVars, cookieVars, fixtureVars, usernameVars, navVars,
      loginVars>>
notNavVars ==
    <<storeVars, apiVars, cookieVars, fixtureVars, usernameVars,
      formVars, loginVars>>
notLoginVars ==
    <<storeVars, apiVars, cookieVars, fixtureVars, usernameVars,
      formVars, navVars>>

\* worker processes of the runner (fullyParallel: true)
Workers == {"w1", "w2"}

\* the places that call saveCredentials
Callers == {"userCreationFixture", "authTest", "journeyTest"}

CredentialFields ==
    <<"username", "password", "firstName", "lastName", "address", "city",
      "state", "zipCode", "phoneNumber", "ssn", "checkingAccountId",
      "savingsAccountId">>

\* the first ten arguments every caller passes, from the nested identity
IdentityArgs(u) ==
    << <<"username", Str(u.username)>>,
       <<"password", Str(u.password)>>,
       <<"firstName", Str(u.firstName)>>,
       <<"lastName", Str(u.lastName)>>,
       <<"address", Str(u.address.street)>>,
       <<"city", Str(u.address.city)>>,
       <<"state", Str(u.address.state)>>,
       <<"zipCode", Str(u.address.zipCode)>>,
       <<"phoneNumber", Str(u.phoneNumber)>>,
       <<"ssn", Str(u.ssn)>> >>

\* the argument list a caller passes to saveCredentials: the fixture and the
\* register/login tests pass ten arguments, the journey test all twelve
CallerArgs(caller, u, checkingAccountId, savingsAccountId) ==
    IF caller = "journeyTest"
    THEN Obj(IdentityArgs(u) \o
             << <<"checkingAccountId", Str(checkingAccountId)>>,
                <<"savingsAccountId", Str(savingsAccountId)>> >>)
    ELSE Obj(IdentityArgs(u) \o
             << <<"checkingAccountId", Undefined>>,
                <<"savingsAccountId", Undefined>> >>)

\* new Date().toISOString()
toISOString(ms) ==
    "1970-01-01T00:00:00."
        \o (IF ms < 10 THEN "00" ELSE IF ms < 100 THEN "0" ELSE "")
        \o ToString(ms) \o "Z"

\* the instants new Date() can return
Times == 0..MaxClock

\* the object literal saveCredentials pushes
NewRecord(a, now) == Obj(a.p \o << <<"createdAt", Str(toISOString(now))>> >>)

PushFront(d, record) == Arr(<<record>> \o d.a)

\* data.push(record)
Push(d, record) == Arr(Append(d.a, record))

NoError == [name |-> "", message |-> ""]
Error(message) == [name |-> "Error", message |-> message]
SyntaxError == [name |-> "SyntaxError", message |-> "Unexpected token in JSON"]
TypeError(message) == [name |-> "TypeError", message |-> message]

NoArgs == Obj(<<>>)
Returned(op, v) ==
    [op |-> op, outcome |-> "returned", value |-> v, error |-> NoError]
Threw(op, e) ==
    [op |-> op, outcome |-> "threw", value |-> Undefined, error |-> e]
NoCall == [op |-> "none", outcome |-> "none", value |-> Undefined, error |-> NoError]

Absent == [exists |-> FALSE, content |-> <<>>]
Present(toks) == [exists |-> TRUE, content |-> toks]

\* whether a file holds a JSON array
HoldsArrayIn(f) ==
    /\ f.exists
    /\ \E r \in {JSONparse(f.content)} : r.ok /\ IsArray(r.v)

\* the array a file holds, as a reader sees it; <<>> when it holds none
RecordsIn(f) ==
    IF ~f.exists THEN <<>>
    ELSE LET r == JSONparse(f.content) IN
         IF r.ok /\ IsArray(r.v) THEN r.v.a ELSE <<>>

Records == RecordsIn(file)

Finish(w, outcome) ==
    /\ pc' = [pc EXCEPT ![w] = "idle"]
    /\ ret' = [ret EXCEPT ![w] = outcome]

\* a test calls saveCredentials(...)
SaveCall(w) ==
    /\ pc[w] = "idle"
    /\ calls < MaxCalls
    /\ calls' = calls + 1
    /\ \E caller \in Callers, u \in Identities, c \in CheckingIds, s \in SavingsIds :
          args' = [args EXCEPT ![w] = CallerArgs(caller, u, c, s)]
    /\ data' = [data EXCEPT ![w] = Arr(<<>>)]
    /\ pc' = [pc EXCEPT ![w] = "save_exists"]
    /\ UNCHANGED <<file, ret>>
    /\ UNCHANGED notStoreVars

\* if (fs.existsSync(filePath))
SaveExists(w) ==
    /\ pc[w] = "save_exists"
    /\ pc' = [pc EXCEPT ![w] = IF file.exists THEN "save_read" ELSE "save_write"]
    /\ UNCHANGED <<file, args, data, ret, calls>>
    /\ UNCHANGED notStoreVars

\* data = JSON.parse(fs.readFileSync(filePath))
SaveRead(w) ==
    /\ pc[w] = "save_read"
    /\ LET r == JSONparse(file.content) IN
       IF r.ok
       THEN /\ data' = [data EXCEPT ![w] = r.v]
            /\ pc' = [pc EXCEPT ![w] = "save_write"]
            /\ UNCHANGED ret
       ELSE /\ Finish(w, Threw("saveCredentials", SyntaxError))
            /\ UNCHANGED data
    /\ UNCHANGED <<file, args, calls>>
    /\ UNCHANGED notStoreVars

WriteMerged(w, now) ==
    JSONstringify(Arr(Append(RecordsIn(file), NewRecord(args[w], now))))

\* what fs.writeFileSync puts in the file: the array read, plus the new record
WrittenContent(w, now) == JSONstringify(Push(data[w], NewRecord(args[w], now)))

\* a write that starts a new array when what was read is not one
SaveWriteAnyway(w) ==
    /\ pc[w] = "save_write"
    /\ \E now \in Times :
          file' = Present(JSONstringify(
                      IF IsArray(data[w])
                      THEN Push(data[w], NewRecord(args[w], now))
                      ELSE Arr(<<NewRecord(args[w], now)>>)))
    /\ Finish(w, Returned("saveCredentials", Undefined))
    /\ data' = [data EXCEPT ![w] = Arr(<<>>)]
    /\ UNCHANGED <<args, calls>>
    /\ UNCHANGED notStoreVars

\* data.push({...}); fs.writeFileSync(filePath, JSON.stringify(data, null, 2))
SaveWrite(w) ==
    /\ pc[w] = "save_write"
    /\ IF IsArray(data[w])
       THEN /\ \E now \in Times : file' = Present(WrittenContent(w, now))
            /\ Finish(w, Returned("saveCredentials", Undefined))
       ELSE /\ Finish(w, Threw("saveCredentials",
                                TypeError("data.push is not a function")))
            /\ UNCHANGED file
    /\ data' = [data EXCEPT ![w] = Arr(<<>>)]
    /\ UNCHANGED <<args, calls>>
    /\ UNCHANGED notStoreVars

\* a test calls getLatestCredentials()
GetCall(w) ==
    /\ pc[w] = "idle"
    /\ calls < MaxCalls
    /\ calls' = calls + 1
    /\ pc' = [pc EXCEPT ![w] = "get_exists"]
    /\ UNCHANGED <<file, args, data, ret>>
    /\ UNCHANGED notStoreVars

\* if (!fs.existsSync(filePath)) throw ...
GetExists(w) ==
    /\ pc[w] = "get_exists"
    /\ IF file.exists
       THEN /\ pc' = [pc EXCEPT ![w] = "get_read"]
            /\ UNCHANGED ret
       ELSE Finish(w, Threw("getLatestCredentials",
                            Error("credentials.json does not exist")))
    /\ UNCHANGED <<file, args, data, calls>>
    /\ UNCHANGED notStoreVars

LatestOfFirst(fileContent) ==
    LET r == JSONparse(fileContent) IN
    IF Trim(fileContent) = <<>>
    THEN Threw("getLatestCredentials", Error("credentials.json is empty"))
    ELSE IF ~r.ok
    THEN Threw("getLatestCredentials", SyntaxError)
    ELSE IF ~IsArray(r.v) \/ Len(r.v.a) = 0
    THEN Threw("getLatestCredentials", Error("No saved credentials found"))
    ELSE Returned("getLatestCredentials", r.v.a[1])

LatestOfUnchecked(fileContent) ==
    LET r == JSONparse(fileContent) IN
    IF Trim(fileContent) = <<>>
    THEN Threw("getLatestCredentials", Error("credentials.json is empty"))
    ELSE IF ~r.ok
    THEN Threw("getLatestCredentials", SyntaxError)
    ELSE IF ~IsArray(r.v)
    THEN Threw("getLatestCredentials", Error("No saved credentials found"))
    ELSE IF Len(r.v.a) = 0
    THEN Returned("getLatestCredentials", Undefined)
    ELSE Returned("getLatestCredentials", r.v.a[Len(r.v.a)])

\* the rest of getLatestCredentials, on the content it reads
LatestOf(fileContent) ==
    IF Trim(fileContent) = <<>>
    THEN Threw("getLatestCredentials", Error("credentials.json is empty"))
    ELSE LET r == JSONparse(fileContent) IN
         IF ~r.ok
         THEN Threw("getLatestCredentials", SyntaxError)
         ELSE IF ~IsArray(r.v) \/ Len(r.v.a) = 0
         THEN Threw("getLatestCredentials", Error("No saved credentials found"))
         ELSE Returned("getLatestCredentials", r.v.a[Len(r.v.a)])

\* const fileContent = fs.readFileSync(filePath, 'utf-8'); ...
GetRead(w) ==
    /\ pc[w] = "get_read"
    /\ Finish(w, LatestOf(file.content))
    /\ UNCHANGED <<file, args, data, calls>>
    /\ UNCHANGED notStoreVars

\* a record of an earlier run, complete with both account identifiers
PriorRecord ==
    NewRecord(CallerArgs("journeyTest", generateRandomUser(0), "12211", "12322"), 0)

\* contents credentials.json can have when a run starts
InitialFiles ==
    { Absent,
      Present(<<>>),
      Present(<<WS>>),
      Present(<<Word("oops")>>),
      Present(<<LB, WS, LC>>),
      Present(<<LC, RC>>),
      Present(<<NullTok>>),
      Present(<<LB, RB>>),
      Present(JSONstringify(Arr(<<PriorRecord>>))) }

InitStore ==
    /\ file \in InitialFiles
    /\ pc = [w \in Workers |-> "idle"]
    /\ args = [w \in Workers |-> NoArgs]
    /\ data = [w \in Workers |-> Arr(<<>>)]
    /\ ret = [w \in Workers |-> NoCall]
    /\ calls = 0

StoreStep(w) ==
    \/ SaveCall(w)
    \/ SaveExists(w)
    \/ SaveRead(w)
    \/ SaveWrite(w)
    \/ GetCall(w)
    \/ GetExists(w)
    \/ GetRead(w)

(***************************************************************************)
(* utils/api-helper.js: the HTTP request adapter.  The file defines        *)
(* apiRequest twice: with the helpers executeNetworkCall and               *)
(* parseResponseBody ("modular"), and as one function ("inline").          *)
(***************************************************************************)
Variants == {"modular", "inline"}

\* strings whose characters the code inspects are sequences of characters
LowerCase ==
    <<"a", "b", "c", "d", "e", "f", "g", "h", "i", "j", "k", "l", "m",
      "n", "o", "p", "q", "r", "s", "t", "u", "v", "w", "x", "y", "z">>
UpperCase ==
    <<"A", "B", "C", "D", "E", "F", "G", "H", "I", "J", "K", "L", "M",
      "N", "O", "P", "Q", "R", "S", "T", "U", "V", "W", "X", "Y", "Z">>

UpperOf(c) ==
    IF \E i \in 1..Len(LowerCase) : LowerCase[i] = c
    THEN UpperCase[CHOOSE i \in 1..Len(LowerCase) : LowerCase[i] = c]
    ELSE c

\* String.prototype.toUpperCase
toUpperCase(chars) == [i \in 1..Len(chars) |-> UpperOf(chars[i])]

\* the characters as one string
RECURSIVE Join(_)
Join(chars) == IF chars = <<>> THEN "" ELSE Head(chars) \o Join(Tail(chars))

\* a string whose characters the code inspects
Chars(c) == [t |-> "chars", c |-> c]

\* truthiness of a value, as if (value) tests it
Truthy(v) ==
    CASE v.t = "undefined" -> FALSE
      [] v.t = "null" -> FALSE
      [] v.t = "string" -> v.s # ""
      [] v.t = "chars" -> v.c # <<>>
      [] v.t = "text" -> v.toks # <<>>
      [] v.t = "number" -> v.n # 0
      [] OTHER -> TRUE

\* { ...target, ...source }
RECURSIVE Spread(_, _, _)
Spread(target, source, i) ==
    IF i > Len(source) THEN target
    ELSE Spread(SetProp(target, source[i][1], source[i][2]), source, i + 1)

RequestHeadersBearer(headers) ==
    IF ~Truthy(headers) THEN <<>>
    ELSE IF headers.t = "string"
    THEN SetProp(<<>>, "Authorization", Str("Bearer " \o headers.s))
    ELSE IF headers.t = "object"
    THEN Spread(<<>>, headers.p, 1)
    ELSE <<>>

\* 1. the headers of the request
RequestHeaders(headers) ==
    IF ~Truthy(headers) THEN <<>>
    ELSE IF headers.t = "string"
    THEN SetProp(<<>>, "Authorization", Str("Token " \o headers.s))
    ELSE IF headers.t = "object"
    THEN Spread(<<>>, headers.p, 1)
    ELSE <<>>

httpRequestOptionsFormOnly(in) ==
    LET h == RequestHeaders(in.headers) IN
    IF ~Truthy(in.body)
    THEN [headers |-> Obj(h), maxRedirects |-> 20,
          form |-> Undefined, data |-> Undefined]
    ELSE IF in.isFormData
    THEN [headers |-> Obj(h), maxRedirects |-> 0,
          form |-> in.body, data |-> Undefined]
    ELSE [headers |->
              Obj(IF Truthy(Lookup(h, "Content-Type", Len(h)))
                  THEN h
                  ELSE SetProp(h, "Content-Type", Str("application/json"))),
          maxRedirects |-> 20,
          form |-> Undefined,
          data |-> in.body]

\* 1. and 2.: the options passed to the transport
httpRequestOptions(in) ==
    LET h == RequestHeaders(in.headers) IN
    IF ~Truthy(in.body)
    THEN [headers |-> Obj(h), maxRedirects |-> 0,
          form |-> Undefined, data |-> Undefined]
    ELSE IF in.isFormData
    THEN [headers |-> Obj(h), maxRedirects |-> 0,
          form |-> in.body, data |-> Undefined]
    ELSE [headers |->
              Obj(IF Truthy(Lookup(h, "Content-Type", Len(h)))
                  THEN h
                  ELSE SetProp(h, "Content-Type", Str("application/json"))),
          maxRedirects |-> 0,
          form |-> Undefined,
          data |-> in.body]

\* 3. const requestUrl = baseUrl ? `${baseUrl}${url}` : url
requestUrl(in) == IF Truthy(in.baseUrl) THEN in.baseUrl.s \o in.url ELSE in.url

POST == <<"P", "O", "S", "T">>
GET == <<"G", "E", "T">>
PUT == <<"P", "U", "T">>
DELETE == <<"D", "E", "L", "E", "T", "E">>
PATCH == <<"P", "A", "T", "C", "H">>

FallBackToGet(verb) ==
    CASE verb = POST -> "post"
      [] verb = PUT -> "put"
      [] verb = DELETE -> "delete"
      [] verb = PATCH -> "patch"
      [] OTHER -> "get"

\* the switch of executeNetworkCall: the transport function called for a
\* verb, "none" where it throws
executeNetworkCall(verb) ==
    CASE verb = POST -> "post"
      [] verb = GET -> "get"
      [] verb = PUT -> "put"
      [] verb = DELETE -> "delete"
      [] verb = PATCH -> "patch"
      [] OTHER -> "none"

\* the same switch, in the inline apiRequest
inlineSwitch(verb) ==
    CASE verb = POST -> "post"
      [] verb = GET -> "get"
      [] verb = PUT -> "put"
      [] verb = DELETE -> "delete"
      [] verb = PATCH -> "patch"
      [] OTHER -> "none"

\* the error of the default branch: the modular definition names the verb,
\* the inline one the method as given
UnsupportedMethod(in) ==
    Error("Unsupported HTTP method: " \o
          (IF in.variant = "modular" THEN Join(toUpperCase(in.method))
           ELSE Join(in.method)))

\* parseResponseBody(response), once response.text() has given rawText
parseResponseBody(rawText) ==
    IF rawText = <<>> THEN Null
    ELSE LET r == JSONparse(rawText) IN
         IF r.ok THEN r.v ELSE Text(rawText)

\* the body of the inline apiRequest, once response.text() has given rawText
bodyData(rawText) ==
    LET r == JSONparse(rawText) IN
    IF r.ok THEN r.v ELSE Text(rawText)

NoResponse == [status |-> 0, headers |-> Obj(<<>>)]
NoNet == [verb |-> "pending", text |-> "pending", error |-> NoError,
          response |-> NoResponse, rawText |-> <<>>]
NoInput ==
    [variant |-> "modular", method |-> <<>>, url |-> "", baseUrl |-> Undefined,
     body |-> Null, headers |-> Undefined, isFormData |-> FALSE]
NoOutcome == [outcome |-> "none", value |-> Undefined, error |-> NoError]

ApiReturned(status, body, headers) ==
    [outcome |-> "returned",
     value |-> Obj(<< <<"status", Num(status)>>, <<"body", body>>,
                      <<"headers", headers>> >>),
     error |-> NoError]
ApiThrew(e) == [outcome |-> "threw", value |-> Undefined, error |-> e]

\* method values callers pass
Methods ==
    { <<"P", "O", "S", "T">>, <<"p", "o", "s", "t">>, <<"G", "E", "T">>,
      <<"G", "e", "t">>, <<"P", "U", "T">>, <<"d", "e", "l", "e", "t", "e">>,
      <<"P", "A", "T", "C", "H">>, <<"H", "E", "A", "D">>,
      <<"o", "p", "t", "i", "o", "n", "s">>, <<"G", "E", "T", " ">>, <<>> }

\* headers arguments: none, a token, or a header map
HeaderArgs ==
    { Undefined,
      Str("abc123"),
      Obj(<<>>),
      Obj(<< <<"Cookie", Str("JSESSIONID=1A2B")>> >>),
      Obj(<< <<"Content-Type", Str("text/xml")>> >>),
      Obj(<< <<"content-type", Str("text/xml")>> >>),
      Str(""),
      Obj(<< <<"Content-Type", Str("")>> >>),
      Obj(<< <<"maxRedirects", Str("5")>>, <<"Accept", Str("application/json")>> >>) }

\* body arguments: none (the default null), an empty object, a payload
BodyArgs ==
    { Null,
      Obj(<<>>),
      Obj(<< <<"username", Str("user1")>>, <<"password", Str("P@$$pw1")>> >>) }

BaseUrls == { Undefined, Str("http://localhost:8080") }

\* the texts response.text() can give
ResponseTexts ==
    { <<>>,
      <<WS>>,
      <<Word("Successfully"), WS, Word("transferred")>>,
      <<LC, StrTok("id"), Colon, NumTok(12345), RC>>,
      <<LB, LC, StrTok("id"), Colon, NumTok(1), RC, Comma, LC, RC, RB>>,
      <<LC, StrTok("id"), Colon>>,
      <<StrTok("ok")>>,
      <<NumTok(42)>>,
      <<NullTok>> }

Responses ==
    { [status |-> 200, headers |-> Obj(<< <<"content-type", Str("application/json")>> >>)],
      [status |-> 302, headers |-> Obj(<< <<"set-cookie", Str("JSESSIONID=1A2B; Path=/parabank")>> >>)] }

\* failures of the transport
TransportErrors == { Error("connect ECONNREFUSED"), Error("Request timed out") }

InitApi ==
    /\ apiPc = "idle"
    /\ apiIn = NoInput
    /\ sent = <<>>
    /\ net = NoNet
    /\ apiOut = NoOutcome
    /\ warnings = 0

\* apiRequest({...}) up to its first await: the options, the URL, and either
\* the call on the transport or the error of the default branch
ApiCall ==
    /\ apiPc = "idle"
    /\ \E variant \in Variants, method \in Methods, headers \in HeaderArgs,
          body \in BodyArgs, isFormData \in BOOLEAN, baseUrl \in BaseUrls :
          LET in == [variant |-> variant, method |-> method, url |-> "/login.htm",
                     baseUrl |-> baseUrl, body |-> body, headers |-> headers,
                     isFormData |-> isFormData]
              fn == IF variant = "modular"
                    THEN executeNetworkCall(toUpperCase(method))
                    ELSE inlineSwitch(toUpperCase(method))
          IN /\ apiIn' = in
             /\ IF fn = "none"
                THEN /\ apiOut' = ApiThrew(UnsupportedMethod(in))
                     /\ apiPc' = "done"
                     /\ UNCHANGED sent
                ELSE /\ sent' = Append(sent, [fn |-> fn, url |-> requestUrl(in),
                                              options |-> httpRequestOptions(in)])
                     /\ apiPc' = "awaiting_response"
                     /\ UNCHANGED apiOut
    /\ UNCHANGED <<net, warnings>>
    /\ UNCHANGED notApiVars

\* the verb call resolves; apiRequest reads status and headers and calls text()
TransportResolves ==
    /\ apiPc = "awaiting_response"
    /\ \E r \in Responses : net' = [net EXCEPT !.verb = "resolved", !.response = r]
    /\ apiPc' = "reading_body"
    /\ UNCHANGED <<apiIn, sent, apiOut, warnings>>
    /\ UNCHANGED notApiVars

\* the verb call rejects: no try/catch is around it
TransportRejects ==
    /\ apiPc = "awaiting_response"
    /\ \E e \in TransportErrors :
          /\ net' = [net EXCEPT !.verb = "rejected", !.error = e]
          /\ apiOut' = ApiThrew(e)
    /\ apiPc' = "done"
    /\ UNCHANGED <<apiIn, sent, warnings>>
    /\ UNCHANGED notApiVars

\* response.text() resolves
TextResolves ==
    /\ apiPc = "reading_body"
    /\ \E t \in ResponseTexts :
          /\ net' = [net EXCEPT !.text = "resolved", !.rawText = t]
          /\ apiOut' = ApiReturned(net.response.status,
                                   IF apiIn.variant = "modular"
                                   THEN parseResponseBody(t)
                                   ELSE bodyData(t),
                                   net.response.headers)
    /\ apiPc' = "done"
    /\ UNCHANGED <<apiIn, sent, warnings>>
    /\ UNCHANGED notApiVars

\* response.text() rejects: the catch logs a warning, the body stays null
TextRejects ==
    /\ apiPc = "reading_body"
    /\ \E e \in TransportErrors :
          net' = [net EXCEPT !.text = "rejected", !.error = e]
    /\ warnings' = warnings + 1
    /\ apiOut' = ApiReturned(net.response.status, Null, net.response.headers)
    /\ apiPc' = "done"
    /\ UNCHANGED <<apiIn, sent>>
    /\ UNCHANGED notApiVars

ApiStep ==
    \/ ApiCall
    \/ TransportResolves
    \/ TransportRejects
    \/ TextResolves
    \/ TextRejects

(***************************************************************************)
(* utils/api-helper.js: extractCookie.                                     *)
(***************************************************************************)
IsSpace(c) == c \in {" ", "\t", "\n"}

\* String.prototype.trim, on characters
RECURSIVE trimStart(_)
trimStart(chars) ==
    IF chars # <<>> /\ IsSpace(Head(chars)) THEN trimStart(Tail(chars)) ELSE chars

RECURSIVE trimEnd(_)
trimEnd(chars) ==
    IF chars # <<>> /\ IsSpace(chars[Len(chars)])
    THEN trimEnd(SubSeq(chars, 1, Len(chars) - 1))
    ELSE chars

trim(chars) == trimEnd(trimStart(chars))

\* chars.split(sep)[0]: the characters before the first sep
RECURSIVE splitFirst(_, _)
splitFirst(chars, sep) ==
    IF chars = <<>> \/ Head(chars) = sep THEN <<>>
    ELSE <<Head(chars)>> \o splitFirst(Tail(chars), sep)

LowerOf(c) ==
    IF \E i \in 1..Len(UpperCase) : UpperCase[i] = c
    THEN LowerCase[CHOOSE i \in 1..Len(UpperCase) : UpperCase[i] = c]
    ELSE c

\* String.prototype.toLowerCase
toLowerCase(chars) == [i \in 1..Len(chars) |-> LowerOf(chars[i])]

\* c => c.trim().split('=')[0].toLowerCase() === cookieName.toLowerCase()
NamesCookie(c, cookieName) ==
    toLowerCase(splitFirst(trim(c.c), "=")) = toLowerCase(cookieName)

\* cookieArray.find(...): the first element the test accepts, else undefined
RECURSIVE find(_, _, _)
find(cookieArray, cookieName, i) ==
    IF i > Len(cookieArray) THEN Undefined
    ELSE IF NamesCookie(cookieArray[i], cookieName) THEN cookieArray[i]
    ELSE find(cookieArray, cookieName, i + 1)

extractCookieWhole(headers, cookieName) ==
    LET setCookie == Get(headers, "set-cookie") IN
    IF ~Truthy(setCookie) THEN Null
    ELSE LET cookieArray == IF IsArray(setCookie) THEN setCookie.a ELSE <<setCookie>>
             targetCookie == find(cookieArray, cookieName, 1)
         IN IF ~Truthy(targetCookie) THEN Null
            ELSE targetCookie

\* extractCookie(headers, cookieName)
extractCookie(headers, cookieName) ==
    LET setCookie == Get(headers, "set-cookie") IN
    IF ~Truthy(setCookie) THEN Null
    ELSE LET cookieArray == IF IsArray(setCookie) THEN setCookie.a ELSE <<setCookie>>
             targetCookie == find(cookieArray, cookieName, 1)
         IN IF ~Truthy(targetCookie) THEN Null
            ELSE Chars(splitFirst(targetCookie.c, ";"))

\* set-cookie entries a response can carry
SessionCookie ==
    Chars(<<"S", "I", "D", "=", "a", "1", ";", " ", "P", "a", "t", "h", "=", "/">>)
BareCookie == Chars(<<"S", "I", "D", "=", "a", "1">>)
LowerCookie == Chars(<<"s", "i", "d", "=", "b", "2", ";", "H", "t", "t", "p">>)
PaddedCookie == Chars(<<" ", "S", "i", "d", "=", "c", "3", ";", " ", "x">>)
SpacedName == Chars(<<"S", "I", "D", " ", "=", "a", "1">>)
NameOnly == Chars(<<"S", "I", "D">>)
NameInAttribute == Chars(<<"X", "=", "1", ";", " ", "S", "I", "D", "=", "a", "1">>)
EqualsInValue == Chars(<<"S", "I", "D", "=", "a", "=", "b", ";", "c">>)
LongerName == Chars(<<"S", "I", "D", "2", "=", "z", ";", " ", "p">>)
OtherCookie == Chars(<<"X", "=", "1", ";", " ", "P", "a", "t", "h", "=", "/">>)
EmptyValue == Chars(<<"S", "I", "D", "=", ";", " ", "p">>)

\* the set-cookie header: absent, one string, or a list of strings
SetCookieValues ==
    { Undefined,
      Chars(<<>>),
      SessionCookie, BareCookie, LowerCookie, PaddedCookie, SpacedName,
      NameOnly, NameInAttribute, EqualsInValue, LongerName, OtherCookie,
      EmptyValue,
      Arr(<<>>),
      Arr(<<SessionCookie>>),
      Arr(<<OtherCookie>>),
      Arr(<<OtherCookie, SessionCookie>>),
      Arr(<<LowerCookie, SessionCookie>>),
      Arr(<<LongerName, NameInAttribute, PaddedCookie, BareCookie>>),
      Arr(<<OtherCookie, LongerName, SpacedName>>) }

\* response headers: other headers, and set-cookie when the response has one
HeadersWith(setCookie) ==
    IF setCookie = Undefined
    THEN Obj(<< <<"content-type", Str("text/html")>> >>)
    ELSE Obj(<< <<"content-type", Str("text/html")>>, <<"set-cookie", setCookie>> >>)

CookieNames ==
    { <<"S", "I", "D">>, <<"s", "i", "d">>, <<"S", "i", "D">>, <<"X">>,
      <<"S", "I">>, <<"P", "a", "t", "h">> }

InitCookie ==
    /\ ckPc = "idle"
    /\ ckHeaders = Obj(<<>>)
    /\ ckName = <<>>
    /\ ckOut = Undefined

\* the test has a response: response.headers
ResponseArrives ==
    /\ ckPc = "idle"
    /\ \E setCookie \in SetCookieValues : ckHeaders' = HeadersWith(setCookie)
    /\ ckPc' = "has_response"
    /\ UNCHANGED <<ckName, ckOut>>
    /\ UNCHANGED notCookieVars

\* sharedSessionId = extractCookie(response.headers, name)
ExtractCookie ==
    /\ ckPc = "has_response"
    /\ \E cookieName \in CookieNames :
          /\ ckName' = cookieName
          /\ ckOut' = extractCookie(ckHeaders, cookieName)
    /\ ckPc' = "done"
    /\ UNCHANGED ckHeaders
    /\ UNCHANGED notCookieVars

CookieStep ==
    \/ ResponseArrives
    \/ ExtractCookie

(***************************************************************************)
(* fixtures/pom/customFixtures.js: the business-process fixtures, and the  *)
(* run of one test that requests them.  The runner that resolves fixtures  *)
(* is the test framework's; it is modelled from its contract.              *)
(***************************************************************************)
USER == "userCreationFixture"
SAVINGS == "savingsAccountCreationFixture"
API == "userAndAccountCreationForApiFixture"

FixtureNames == {USER, SAVINGS, API}

\* the fixtures an initializer names in its first parameter
Deps(f) ==
    CASE f = USER -> {}
      [] f = SAVINGS -> {USER}
      [] f = API -> {USER, SAVINGS}

\* the tests: the fixtures the test function names, and what its body does
Tests ==
    { [name |-> "TC-06", requests |-> {USER, SAVINGS}, body |-> "scenario"],
      [name |-> "TC-04", requests |-> {USER}, body |-> "scenario"],
      [name |-> "TC-05", requests |-> {SAVINGS}, body |-> "scenario"],
      [name |-> "TC-API-01", requests |-> {API}, body |-> "scenario"],
      [name |-> "TC-01a", requests |-> {}, body |-> "registers"] }

NoTest == [name |-> "", requests |-> {}, body |-> ""]
NoValue == [none |-> TRUE]
NoLocals == [checkingAccountId |-> "", savingsAccountId |-> ""]

\* every fixture the test needs: those it names and those they depend on
Needed(requests) ==
    LET one == requests \cup UNION {Deps(f) : f \in requests}
    IN one \cup UNION {Deps(f) : f \in one}

\* toPass({ intervals: [1000, 2000], timeout: 10000 }) and toBeVisible({ timeout: 1000 })
Intervals == <<1000, 2000>>
ToPassTimeout == 10000
ExpectTimeout == 1000

\* how long a failing attempt can take: the visibility timeout, or an action
\* that hangs until its own timeout
AttemptDurations == {ExpectTimeout, 3000, 15000}

\* texts the account links can show, trimmed: an identifier, or nothing
AccountIdTexts == CheckingIds \cup {""}
NewAccountIdTexts == SavingsIds \cup {""}

\* usernames registered with the application before the run
ExistingUsers == { {}, {generateRandomUser(1).username} }

\* the option the funding-account dropdown shows when nothing was selected
DefaultSelection == "default"

InitFixture ==
    /\ tPc = "no_test"
    /\ tKind = NoTest
    /\ fxState = [f \in FixtureNames |-> "unused"]
    /\ fxBuilt = [f \in FixtureNames |-> 0]
    /\ fxValue = [f \in FixtureNames |-> NoValue]
    /\ received = {}
    /\ identities = <<>>
    /\ attempts = 0
    /\ elapsed = 0
    /\ waits = <<>>
    /\ app = [existing |-> {}, registered |-> {}, titleVisible |-> FALSE,
              session |-> "", fromAccount |-> DefaultSelection,
              opened |-> <<>>]
    /\ appended = <<>>
    /\ locals = NoLocals
    /\ events = <<>>
    /\ tError = ""

Do(by, step) == events' = Append(events, [by |-> by, step |-> step])

Fail(message) == tPc' = "failed" /\ tError' = message

\* the test starts: the runner looks at the fixtures its function names; the
\* application holds the usernames registered before the run
StartTest ==
    /\ tPc = "no_test"
    /\ \E t \in Tests : tKind' = t
    /\ \E e \in ExistingUsers : app' = [app EXCEPT !.existing = e]
    /\ tPc' = "resolving"
    /\ UNCHANGED <<fxState, fxBuilt, fxValue, received, identities, attempts,
                   elapsed, waits, appended, locals, events, tError>>
    /\ UNCHANGED notFixtureVars

NeedsSetupAgain(f) == fxState[f] = "unused" \/ (fxState[f] = "ready" /\ fxBuilt[f] < 2)

\* a fixture is set up when it has not been set up in this test
NeedsSetup(f) == fxState[f] = "unused"

FirstStep(f) ==
    CASE f = USER -> "u_generate"
      [] f = SAVINGS -> "s_login"
      [] f = API -> "a_use"

\* the runner starts the initializer of a needed fixture whose dependencies
\* are ready, handing it their values
SetupFixture ==
    /\ tPc = "resolving"
    /\ \E f \in Needed(tKind.requests) :
          /\ NeedsSetup(f)
          /\ \A d \in Deps(f) : fxState[d] = "ready" /\ ~NeedsSetup(d)
          /\ fxState' = [fxState EXCEPT ![f] = "setup"]
          /\ fxBuilt' = [fxBuilt EXCEPT ![f] = @ + 1]
          /\ received' = received \cup {<<f, d, fxValue[d]>> : d \in Deps(f)}
          /\ tPc' = FirstStep(f)
    /\ UNCHANGED <<tKind, fxValue, identities, attempts, elapsed, waits, app,
                   appended, locals, events, tError>>
    /\ UNCHANGED notFixtureVars

\* every needed fixture is ready: the runner calls the test function
RunBody ==
    /\ tPc = "resolving"
    /\ \A f \in Needed(tKind.requests) : fxState[f] = "ready" /\ ~NeedsSetup(f)
    /\ received' = received \cup {<<"test", f, fxValue[f]>> : f \in tKind.requests}
    /\ tPc' = IF tKind.body = "registers" THEN "b_generate" ELSE "body"
    /\ UNCHANGED <<tKind, fxState, fxBuilt, fxValue, identities, attempts,
                   elapsed, waits, app, appended, locals, events, tError>>
    /\ UNCHANGED notFixtureVars

\* the scenario of the test
Body ==
    /\ tPc = "body"
    /\ Do("test", "body")
    /\ tPc' = "passed"
    /\ UNCHANGED <<tKind, fxState, fxBuilt, fxValue, received, identities,
                   attempts, elapsed, waits, app, appended, locals, tError>>
    /\ UNCHANGED notFixtureVars

\* await use(value): the value goes to the runner, which resumes resolving
Use(f, value) ==
    /\ fxState' = [fxState EXCEPT ![f] = "ready"]
    /\ fxValue' = [fxValue EXCEPT ![f] = value]
    /\ tPc' = "resolving"

(***************************************************************************)
(* userCreationFixture.                                                    *)
(***************************************************************************)
UserStepsUseFirst ==
    <<"u_generate", "u_navigate", "u_toPass", "u_save", "u_discover", "u_use",
      "u_logout">>

UserStepsSaveFirst ==
    <<"u_generate", "u_navigate", "u_save", "u_toPass", "u_discover",
      "u_logout", "u_use">>

\* the statements of the initializer, in the order it awaits them
UserSteps ==
    <<"u_generate", "u_navigate", "u_toPass", "u_save", "u_discover",
      "u_logout", "u_use">>

\* the statement after a statement of the initializer
After(step) ==
    UserSteps[(CHOOSE i \in 1..Len(UserSteps) : UserSteps[i] = step) + 1]

\* the identity the running initializer or body generated
NewIdentity == identities[Len(identities)]

\* const newIdentity = generateRandomUser()
UserGenerate ==
    /\ tPc = "u_generate"
    /\ \E u \in Identities : identities' = Append(identities, u)
    /\ Do(USER, "generateRandomUser")
    /\ tPc' = After("u_generate")
    /\ UNCHANGED <<tKind, fxState, fxBuilt, fxValue, received, attempts,
                   elapsed, waits, app, appended, locals, tError>>
    /\ UNCHANGED notFixtureVars

\* basePage.navigateTo(INDEX_PAGE_URL); loginPage.clickRegisterLink()
UserNavigate ==
    /\ tPc = "u_navigate"
    /\ Do(USER, "clickRegisterLink")
    /\ attempts' = 0
    /\ elapsed' = 0
    /\ waits' = <<>>
    /\ tPc' = After("u_navigate")
    /\ UNCHANGED <<tKind, fxState, fxBuilt, fxValue, received, identities,
                   app, appended, locals, tError>>
    /\ UNCHANGED notFixtureVars

\* what the application does with a submitted registration of username: it
\* accepts a new username and shows the welcome title; or it does not accept
\* (nothing committed yet, a username that exists, a form error) and the
\* page it shows has an h1.title or has none
Submitted(username) ==
    (IF username \in app.existing \cup app.registered
     THEN {}
     ELSE { [app EXCEPT !.registered = @ \cup {username},
                        !.titleVisible = TRUE,
                        !.session = username] })
    \cup { [app EXCEPT !.titleVisible = v] : v \in BOOLEAN }

\* expect(registerPage.welcomeMessage).toBeVisible(): h1.title is on the page
toPassPasses(a) == a.titleVisible

\* one attempt of the toPass block: fill the form, submit, expect the title.
\* The block ends when the attempt passes; the deadline cuts a failing
\* attempt that would run past it.
ToPassAttempt ==
    /\ tPc = "u_toPass"
    /\ attempts' = attempts + 1
    /\ \E a \in Submitted(NewIdentity.username) :
          /\ app' = a
          /\ IF toPassPasses(a)
             THEN /\ tPc' = After("u_toPass")
                  /\ Do(USER, "welcome_visible")
                  /\ UNCHANGED <<elapsed, tError>>
             ELSE \E d \in AttemptDurations :
                    /\ Do(USER, "attempt_failed")
                    /\ IF elapsed + d >= ToPassTimeout
                       THEN /\ elapsed' = ToPassTimeout
                            /\ Fail("toPass: timeout 10000ms exceeded")
                       ELSE /\ elapsed' = elapsed + d
                            /\ tPc' = "u_wait"
                            /\ UNCHANGED tError
    /\ UNCHANGED <<tKind, fxState, fxBuilt, fxValue, received, identities,
                   waits, appended, locals>>
    /\ UNCHANGED notFixtureVars

NextIntervalFixed == Intervals[1]

\* the interval before the next attempt: intervals in turn, the last repeats
NextInterval == Intervals[IF Len(waits) < Len(Intervals) THEN Len(waits) + 1 ELSE Len(Intervals)]

\* between attempts: the block gives up when the interval would pass the
\* deadline, else it sleeps for the interval
ToPassWait ==
    /\ tPc = "u_wait"
    /\ IF elapsed + NextInterval >= ToPassTimeout
       THEN /\ Fail("toPass: timeout 10000ms exceeded")
            /\ UNCHANGED <<elapsed, waits>>
       ELSE /\ elapsed' = elapsed + NextInterval
            /\ waits' = Append(waits, NextInterval)
            /\ tPc' = "u_toPass"
            /\ UNCHANGED tError
    /\ UNCHANGED <<tKind, fxState, fxBuilt, fxValue, received, identities,
                   attempts, app, appended, locals, events>>
    /\ UNCHANGED notFixtureVars

\* saveCredentials(newIdentity.username, ..., newIdentity.ssn)
UserSave ==
    /\ tPc = "u_save"
    /\ appended' = Append(appended, [by |-> USER, username |-> NewIdentity.username,
                                    args |-> Obj(IdentityArgs(NewIdentity))])
    /\ Do(USER, "saveCredentials")
    /\ tPc' = After("u_save")
    /\ UNCHANGED <<tKind, fxState, fxBuilt, fxValue, received, identities,
                   attempts, elapsed, waits, app, locals, tError>>
    /\ UNCHANGED notFixtureVars

\* homePage.navigateViaLeftMenu('Accounts Overview');
\* checkingAccountId = await homePage.getFirstAccountId(): the trimmed text of
\* the first account link, '' when it has none; waitFor throws on a timeout
UserDiscover ==
    /\ tPc = "u_discover"
    /\ Do(USER, "getFirstAccountId")
    /\ \/ /\ \E text \in AccountIdTexts :
                locals' = [locals EXCEPT !.checkingAccountId = text]
          /\ tPc' = After("u_discover")
          /\ UNCHANGED tError
       \/ /\ Fail("locator.waitFor: Timeout exceeded")
          /\ UNCHANGED locals
    /\ UNCHANGED <<tKind, fxState, fxBuilt, fxValue, received, identities,
                   attempts, elapsed, waits, app, appended>>
    /\ UNCHANGED notFixtureVars

\* homePage.clickLogout()
UserLogout ==
    /\ tPc = "u_logout"
    /\ app' = [app EXCEPT !.session = ""]
    /\ Do(USER, "clickLogout")
    /\ tPc' = After("u_logout")
    /\ UNCHANGED <<tKind, fxState, fxBuilt, fxValue, received, identities,
                   attempts, elapsed, waits, appended, locals, tError>>
    /\ UNCHANGED notFixtureVars

\* { ...a, ...b }: the properties of a, then those of b, a later one replacing
\* an earlier one of the same name
SpreadFields(a, b) ==
    [k \in DOMAIN a \cup DOMAIN b |-> IF k \in DOMAIN b THEN b[k] ELSE a[k]]

\* a value with the identity alone
userCreationValueNested(newIdentity, checkingAccountId) ==
    SpreadFields(newIdentity, [checkingAccountId |-> checkingAccountId])

\* { ...newIdentity, ...newIdentity.address, checkingAccountId }
userCreationValue(newIdentity, checkingAccountId) ==
    SpreadFields(SpreadFields(newIdentity, newIdentity.address),
                 [checkingAccountId |-> checkingAccountId])

\* use({ ...newIdentity, ...newIdentity.address, checkingAccountId })
UserUse ==
    /\ tPc = "u_use"
    /\ Use(USER, userCreationValue(NewIdentity, locals.checkingAccountId))
    /\ Do(USER, "use")
    /\ UNCHANGED <<tKind, fxBuilt, received, identities, attempts, elapsed,
                   waits, app, appended, locals, tError>>
    /\ UNCHANGED notFixtureVars

(***************************************************************************)
(* savingsAccountCreationFixture, userAndAccountCreationForApiFixture.     *)
(***************************************************************************)
\* loginPage.login(userCreationFixture.username, userCreationFixture.password)
SavingsLogin ==
    /\ tPc = "s_login"
    /\ app' = [app EXCEPT !.session = fxValue[USER].username]
    /\ Do(SAVINGS, "login")
    /\ tPc' = "s_open"
    /\ UNCHANGED <<tKind, fxState, fxBuilt, fxValue, received, identities,
                   attempts, elapsed, waits, appended, locals, tError>>
    /\ UNCHANGED notFixtureVars

\* homePage.navigateViaLeftMenu('Open New Account');
\* openAccountPage.openAccount('SAVINGS', userCreationFixture.checkingAccountId)
\* the page opens with the default selection; then openAccount:
\* accountTypeDropdown.selectOption(accountType);
\* if (fromAccountId) fromAccountDropdown.selectOption(fromAccountId);
\* click on openNewAccountButton
openAccount(a, accountType, fromAccountId) ==
    LET selected == IF fromAccountId # "" THEN fromAccountId
                    ELSE DefaultSelection
    IN [a EXCEPT !.fromAccount = selected,
                 !.opened = Append(@, [type |-> accountType,
                                       from |-> selected])]

SavingsOpen ==
    /\ tPc = "s_open"
    /\ Do(SAVINGS, "openAccount")
    /\ \/ /\ app' = openAccount(app, "SAVINGS", fxValue[USER].checkingAccountId)
          /\ tPc' = "s_read"
          /\ UNCHANGED tError
       \/ /\ fxValue[USER].checkingAccountId # ""
          /\ Fail("selectOption: Timeout exceeded")
          /\ UNCHANGED app
    /\ UNCHANGED <<tKind, fxState, fxBuilt, fxValue, received, identities,
                   attempts, elapsed, waits, appended, locals>>
    /\ UNCHANGED notFixtureVars

\* savingsAccountId = await openAccountPage.getNewAccountId(): the trimmed
\* text of the new account link, '' when it has none
SavingsRead ==
    /\ tPc = "s_read"
    /\ Do(SAVINGS, "getNewAccountId")
    /\ \/ /\ \E text \in NewAccountIdTexts :
                locals' = [locals EXCEPT !.savingsAccountId = text]
          /\ tPc' = "s_check"
          /\ UNCHANGED tError
       \/ /\ Fail("locator.waitFor: Timeout exceeded")
          /\ UNCHANGED locals
    /\ UNCHANGED <<tKind, fxState, fxBuilt, fxValue, received, identities,
                   attempts, elapsed, waits, app, appended>>
    /\ UNCHANGED notFixtureVars

NeverMissing(savingsAccountId) == FALSE

\* !savingsAccountId, for the string getNewAccountId returns
Missing(savingsAccountId) == savingsAccountId = ""

SetupFailed(username) ==
    "Fixture Setup Failed: Savings Account ID was not captured for user " \o username

\* if (!savingsAccountId) throw new Error(...); await use({ savingsAccountId })
SavingsCheck ==
    /\ tPc = "s_check"
    /\ IF Missing(locals.savingsAccountId)
       THEN /\ Fail(SetupFailed(fxValue[USER].username))
            /\ Do(SAVINGS, "throw")
            /\ UNCHANGED <<fxState, fxValue>>
       ELSE /\ Use(SAVINGS, [savingsAccountId |-> locals.savingsAccountId])
            /\ Do(SAVINGS, "use")
            /\ UNCHANGED tError
    /\ UNCHANGED <<tKind, fxBuilt, received, identities, attempts, elapsed,
                   waits, app, appended, locals>>
    /\ UNCHANGED notFixtureVars

\* use({ ...userCreationFixture, savingsAccountId: ... })
ApiUse ==
    /\ tPc = "a_use"
    /\ Use(API, SpreadFields(fxValue[USER],
                              [savingsAccountId |->
                                   fxValue[SAVINGS].savingsAccountId]))
    /\ Do(API, "use")
    /\ UNCHANGED <<tKind, fxBuilt, received, identities, attempts, elapsed,
                   waits, app, appended, locals, tError>>
    /\ UNCHANGED notFixtureVars

(***************************************************************************)
(* tests/e2e/features/auth/register.spec.js: TC-01a registers in its body. *)
(***************************************************************************)
\* const newAccountData = generateRandomUser()
BodyGenerate ==
    /\ tPc = "b_generate"
    /\ \E u \in Identities : identities' = Append(identities, u)
    /\ Do("test", "generateRandomUser")
    /\ tPc' = "b_register"
    /\ UNCHANGED <<tKind, fxState, fxBuilt, fxValue, received, attempts,
                   elapsed, waits, app, appended, locals, tError>>
    /\ UNCHANGED notFixtureVars

\* loginPage.clickRegisterLink(); registerPage.registerNewUser(newAccountData)
BodyRegister ==
    /\ tPc = "b_register"
    /\ \E a \in Submitted(NewIdentity.username) : app' = a
    /\ Do("test", "registerNewUser")
    /\ tPc' = "b_save"
    /\ UNCHANGED <<tKind, fxState, fxBuilt, fxValue, received, identities,
                   attempts, elapsed, waits, appended, locals, tError>>
    /\ UNCHANGED notFixtureVars

\* saveCredentials(newAccountData.username, ..., newAccountData.ssn)
BodySave ==
    /\ tPc = "b_save"
    /\ appended' = Append(appended, [by |-> "test", username |-> NewIdentity.username,
                                    args |-> Obj(IdentityArgs(NewIdentity))])
    /\ Do("test", "saveCredentials")
    /\ tPc' = "b_verify"
    /\ UNCHANGED <<tKind, fxState, fxBuilt, fxValue, received, identities,
                   attempts, elapsed, waits, app, locals, tError>>
    /\ UNCHANGED notFixtureVars

\* expect(registerPage.welcomeMessage).toContainText(newAccountData.username)
BodyVerify ==
    /\ tPc = "b_verify"
    /\ IF app.titleVisible /\ app.session = NewIdentity.username
       THEN /\ tPc' = "passed"
            /\ Do("test", "welcome_confirmed")
            /\ UNCHANGED tError
       ELSE /\ Fail("expect(locator).toContainText: Timeout exceeded")
            /\ Do("test", "welcome_missing")
    /\ UNCHANGED <<tKind, fxState, fxBuilt, fxValue, received, identities,
                   attempts, elapsed, waits, app, appended, locals>>
    /\ UNCHANGED notFixtureVars

FixtureStep ==
    \/ StartTest
    \/ SetupFixture
    \/ RunBody
    \/ Body
    \/ UserGenerate
    \/ UserNavigate
    \/ ToPassAttempt
    \/ ToPassWait
    \/ UserSave
    \/ UserDiscover
    \/ UserLogout
    \/ UserUse
    \/ SavingsLogin
    \/ SavingsOpen
    \/ SavingsRead
    \/ SavingsCheck
    \/ ApiUse
    \/ BodyGenerate
    \/ BodyRegister
    \/ BodySave
    \/ BodyVerify

(***************************************************************************)
(* utils/helpers.js: generateRandomUsername.                               *)
(***************************************************************************)
\* longest base string drawn from the random source
MaxBaseLen == 3

Digits == <<"0", "1", "2", "3", "4", "5", "6", "7", "8", "9">>

\* the character class [a-zA-Z0-9]
IsAlphanumeric(ch) ==
    \/ \E i \in 1..Len(LowerCase) : ch \in {LowerCase[i], UpperCase[i]}
    \/ \E i \in 1..Len(Digits) : ch = Digits[i]

\* base.replace(/[^a-zA-Z0-9]/g, ''): every character outside the class is
\* dropped, the others keep their order
replace(base) == SelectSeq(base, IsAlphanumeric)

\* Date.now(), as decimal digits
DateNow == <<"1", "7">>

\* the variant the source keeps in comments: `${baseUsername}_${Date.now()}`
generateRandomUsernameTimestamped(base) == replace(base) \o <<"_">> \o DateNow

\* return `${faker.internet.username().replace(/[^a-zA-Z0-9]/g, '')}`
generateRandomUsername(base) == replace(base)

\* characters the random source may put in a base string: letters, digits
\* and the separators faker joins name parts with
BaseAlphabet == {"a", "Z", "7", ".", "_", "-"}

RECURSIVE StringsUpTo(_)
StringsUpTo(n) ==
    IF n = 0 THEN {<<>>}
    ELSE LET shorter == StringsUpTo(n - 1)
         IN shorter \cup {Append(b, ch) : b \in shorter, ch \in BaseAlphabet}

BaseStrings == StringsUpTo(MaxBaseLen)

InitUsername ==
    /\ unPc = "idle"
    /\ unBase = <<>>
    /\ unOut = <<>>
    /\ unReturned = <<>>

\* faker.internet.username()
FakerUsername ==
    /\ unPc = "idle"
    /\ \E base \in BaseStrings : unBase' = base
    /\ unPc' = "replacing"
    /\ UNCHANGED <<unOut, unReturned>>
    /\ UNCHANGED notUsernameVars

\* .replace(...) and the return of the template string
ReturnUsername ==
    /\ unPc = "replacing"
    /\ unOut' = generateRandomUsername(unBase)
    /\ unReturned' = Append(unReturned, generateRandomUsername(unBase))
    /\ unPc' = "done"
    /\ UNCHANGED unBase
    /\ UNCHANGED notUsernameVars

\* calls of generateRandomUsername in one process run
MaxUsernameCalls == 2

\* the run calls generateRandomUsername again (generateRandomUser, line 91,
\* is called once per identity a test or fixture needs)
CallAgain ==
    /\ unPc = "done"
    /\ Len(unReturned) < MaxUsernameCalls
    /\ unPc' = "idle"
    /\ UNCHANGED <<unBase, unOut, unReturned>>
    /\ UNCHANGED notUsernameVars

UsernameStep ==
    \/ FakerUsername
    \/ ReturnUsername

(***************************************************************************)
(* pages/RegisterPage.js: fillRegistrationForm.                            *)
(***************************************************************************)
\* the inputs of the form, in the order fillRegistrationForm fills them, each
\* with the path of the userData property it is filled from
FormInputs ==
    << <<"customer.firstName", "firstName">>,
       <<"customer.lastName", "lastName">>,
       <<"customer.address.street", "street">>,
       <<"customer.address.city", "city">>,
       <<"customer.address.state", "state">>,
       <<"customer.address.zipCode", "zipCode">>,
       <<"customer.phoneNumber", "phoneNumber">>,
       <<"customer.ssn", "ssn">>,
       <<"customer.username", "username">>,
       <<"customer.password", "password">> >>

ConfirmInput == "repeatedPassword"

InputNames == {FormInputs[i][1] : i \in 1..Len(FormInputs)} \cup {ConfirmInput}

\* userData.<property>, userData.address.<property> for the address
PropertyOf(userData, property) ==
    IF property \in {"street", "city", "state", "zipCode"}
    THEN userData.address[property]
    ELSE userData[property]

\* a || b
Or(a, b) == IF Truthy(a) THEN a ELSE b

\* const confirmation = userData.confirmPassword || userData.password
confirmation(userData) == Or(userData.confirmPassword, Str(userData.password))

\* the values of confirmPassword a caller may put in userData: none, null,
\* the empty string, the password, another string
Confirmations(u) ==
    {Undefined, Null, Str(""), Str(u.password), Str("Mismatch1!")}

UserDatas ==
    UNION { { [u EXCEPT !.confirmPassword = c] : c \in Confirmations(u) } :
                u \in Identities }
        \cup { [u EXCEPT !.confirmPassword = c, !.password = ""] :
                  u \in Identities, c \in {Undefined, Str("")} }

NoUserData == [confirmPassword |-> Undefined]

InitForm ==
    /\ rfPc = 0
    /\ rfUserData = NoUserData
    /\ rfInputs = [i \in InputNames |-> ""]

\* a caller calls fillRegistrationForm(userData) on an empty form
FillCall ==
    /\ rfPc = 0
    /\ rfUserData = NoUserData
    /\ \E userData \in UserDatas : rfUserData' = userData
    /\ rfPc' = 1
    /\ UNCHANGED rfInputs
    /\ UNCHANGED notFormVars

\* await this.<input>.fill(userData.<property>), for the ten inputs in turn
FillInput ==
    /\ rfPc \in 1..Len(FormInputs)
    /\ rfInputs' = [rfInputs EXCEPT ![FormInputs[rfPc][1]] =
                        PropertyOf(rfUserData, FormInputs[rfPc][2])]
    /\ rfPc' = rfPc + 1
    /\ UNCHANGED rfUserData
    /\ UNCHANGED notFormVars

\* await this.confirmPasswordInput.fill(confirmation)
FillConfirmation ==
    /\ rfPc = Len(FormInputs) + 1
    /\ rfInputs' = [rfInputs EXCEPT ![ConfirmInput] = confirmation(rfUserData).s]
    /\ rfPc' = rfPc + 1
    /\ UNCHANGED rfUserData
    /\ UNCHANGED notFormVars

FormStep ==
    \/ FillCall
    \/ FillInput
    \/ FillConfirmation

(***************************************************************************)
(* playwright.config.js and BasePage.navigateTo.                           *)
(***************************************************************************)
\* most slashes at the end of a base URL and at the start of a path
MaxSlashes == 2

RECURSIVE Slashes(_)
Slashes(n) == IF n = 0 THEN <<>> ELSE <<"/">> \o Slashes(n - 1)

Localhost == <<"l", "o", "c", "a", "l">>

\* values of APP_BASE_URL: not set, empty, a URL ending with some slashes
EnvBaseUrls ==
    {Undefined, Chars(<<>>)}
        \cup {Chars(origin \o Slashes(n)) :
                 origin \in {<<"h">>, <<"s", ":", "/", "/", "h">>},
                 n \in 0..MaxSlashes}

\* urlPath arguments: '' (the default), and paths after some slashes
UrlPaths ==
    {Slashes(n) \o rest :
         n \in 0..MaxSlashes,
         rest \in {<<>>, <<"p">>, <<"p", "/", "q">>}}

NoNavigation == [outcome |-> "none", url |-> <<>>, error |-> NoError]

InitNav ==
    /\ navPc = "idle"
    /\ navEnv = Undefined
    /\ navConfig = [baseURL |-> <<>>, warnings |-> 0]
    /\ navPath = <<>>
    /\ navOut = NoNavigation

\* the configuration module runs: dotenv has set, or not set, APP_BASE_URL;
\* if (!process.env.APP_BASE_URL) console.warn(...);
\* BASE_URL = process.env.APP_BASE_URL || 'http://localhost:8080'
LoadConfig ==
    /\ navPc = "idle"
    /\ \E env \in EnvBaseUrls :
          /\ navEnv' = env
          /\ navConfig' = [baseURL |-> IF Truthy(env) THEN env.c ELSE Localhost,
                           warnings |-> IF Truthy(env) THEN 0 ELSE 1]
    /\ navPc' = "configured"
    /\ UNCHANGED <<navPath, navOut>>
    /\ UNCHANGED notNavVars

\* a test or fixture calls navigateTo(urlPath);
\* const baseUrl = process.env.APP_BASE_URL
NavigateCall ==
    /\ navPc = "configured"
    /\ \E urlPath \in UrlPaths : navPath' = urlPath
    /\ navPc' = "checking"
    /\ UNCHANGED <<navEnv, navConfig, navOut>>
    /\ UNCHANGED notNavVars

\* if (!baseUrl) throw new Error('APP_BASE_URL is not defined. ...')
NavigateThrow ==
    /\ navPc = "checking"
    /\ ~Truthy(navEnv)
    /\ navOut' = [outcome |-> "threw", url |-> <<>>,
                  error |-> Error("APP_BASE_URL is not defined. Please check your .env file or CI environment.")]
    /\ navPc' = "failed"
    /\ UNCHANGED <<navEnv, navConfig, navPath>>
    /\ UNCHANGED notNavVars

\* a path used as it is
formattedPathRaw(urlPath) == urlPath

\* urlPath.startsWith('/') ? urlPath : `/${urlPath}`
formattedPath(urlPath) ==
    IF urlPath # <<>> /\ urlPath[1] = "/" THEN urlPath ELSE <<"/">> \o urlPath

\* baseUrl.replace(/\/$/, ''): one slash at the end is removed
replaceTrailingSlash(baseUrl) ==
    IF baseUrl # <<>> /\ baseUrl[Len(baseUrl)] = "/"
    THEN SubSeq(baseUrl, 1, Len(baseUrl) - 1)
    ELSE baseUrl

\* const fullUrl = `${baseUrl.replace(/\/$/, '')}${formattedPath}`
fullUrl(baseUrl, urlPath) == replaceTrailingSlash(baseUrl) \o formattedPath(urlPath)

\* await this.page.goto(fullUrl, {...})
NavigateGoto ==
    /\ navPc = "checking"
    /\ Truthy(navEnv)
    /\ navOut' = [outcome |-> "goto", url |-> fullUrl(navEnv.c, navPath),
                  error |-> NoError]
    /\ navPc' = "navigated"
    /\ UNCHANGED <<navEnv, navConfig, navPath>>
    /\ UNCHANGED notNavVars

NavStep ==
    \/ LoadConfig
    \/ NavigateCall
    \/ NavigateThrow
    \/ NavigateGoto

(***************************************************************************)
(* tests/e2e/features/auth/login.spec.js: the serial block TC-02a, TC-03   *)
(* on one worker, while a test of another file runs on another worker.     *)
(***************************************************************************)
BlockWorker == "w1"
OtherWorker == "w2"

\* the identity TC-02a generates
BlockIdentity == generateRandomUser(1)

notStoreNorLoginVars ==
    <<apiVars, cookieVars, fixtureVars, usernameVars, formVars, navVars>>

InitLogin ==
    /\ blk = "TC-02a"
    /\ other = "todo"

\* TC-02a: saveCredentials(newIdentity.username, ..., newIdentity.ssn)
BlockSaves ==
    /\ blk = "TC-02a"
    /\ pc[BlockWorker] = "idle"
    /\ args' = [args EXCEPT ![BlockWorker] =
                    CallerArgs("authTest", BlockIdentity, "", "")]
    /\ data' = [data EXCEPT ![BlockWorker] = Arr(<<>>)]
    /\ pc' = [pc EXCEPT ![BlockWorker] = "save_exists"]
    /\ calls' = calls + 1
    /\ blk' = "TC-03"
    /\ UNCHANGED <<file, ret, other>>
    /\ UNCHANGED notStoreNorLoginVars

\* TC-03, run after TC-02a passed: const credentials = getLatestCredentials()
BlockReads ==
    /\ blk = "TC-03"
    /\ pc[BlockWorker] = "idle"
    /\ ret[BlockWorker] = Returned("saveCredentials", Undefined)
    /\ pc' = [pc EXCEPT ![BlockWorker] = "get_exists"]
    /\ calls' = calls + 1
    /\ blk' = "done"
    /\ UNCHANGED <<file, args, data, ret, other>>
    /\ UNCHANGED notStoreNorLoginVars

\* describe.serial: TC-03 is skipped when TC-02a failed
BlockSkips ==
    /\ blk = "TC-03"
    /\ pc[BlockWorker] = "idle"
    /\ ret[BlockWorker].outcome = "threw"
    /\ blk' = "skipped"
    /\ UNCHANGED <<storeVars, other>>
    /\ UNCHANGED notStoreNorLoginVars

\* a register test, userCreationFixture or the journey test, on the other
\* worker, saves the identity it generated
OtherSaves ==
    /\ other = "todo"
    /\ pc[OtherWorker] = "idle"
    /\ \E caller \in Callers, u \in Identities \ {BlockIdentity},
          c \in CheckingIds, s \in SavingsIds :
          args' = [args EXCEPT ![OtherWorker] = CallerArgs(caller, u, c, s)]
    /\ data' = [data EXCEPT ![OtherWorker] = Arr(<<>>)]
    /\ pc' = [pc EXCEPT ![OtherWorker] = "save_exists"]
    /\ calls' = calls + 1
    /\ other' = "done"
    /\ UNCHANGED <<file, ret, blk>>
    /\ UNCHANGED notStoreNorLoginVars

\* the file operations of a call that has started
StoreContinues(w) ==
    \/ SaveExists(w)
    \/ SaveRead(w)
    \/ SaveWrite(w)
    \/ GetExists(w)
    \/ GetRead(w)

LoginStep ==
    \/ BlockSaves
    \/ BlockReads
    \/ BlockSkips
    \/ OtherSaves
    \/ \E w \in Workers : StoreContinues(w)

(***************************************************************************)
(* Specifications.                                                         *)
(***************************************************************************)
vars ==
    <<storeVars, apiVars, cookieVars, fixtureVars, usernameVars,
      formVars, navVars, loginVars>>

Init ==
    /\ InitStore
    /\ InitApi
    /\ InitCookie
    /\ InitFixture
    /\ InitUsername
    /\ InitForm
    /\ InitNav
    /\ InitLogin

\* parallel workers: their file operations interleave
Next == \E w \in Workers : StoreStep(w)

Spec == Init /\ [][Next]_vars

\* one worker (workers: 1): calls run one after the other
NextSerial == StoreStep("w1")

SpecSerial == Init /\ [][NextSerial]_vars

\* one apiRequest call, from its arguments to its outcome
InitApiCall ==
    /\ InitApi
    /\ InitStore
    /\ file = Absent
    /\ InitCookie
    /\ InitFixture
    /\ InitUsername
    /\ InitForm
    /\ InitNav
    /\ InitLogin

NextApi == ApiStep

SpecApi == InitApiCall /\ [][NextApi]_vars

\* one use of extractCookie on the headers of a response
NextCookie == CookieStep

SpecCookie == InitApiCall /\ [][NextCookie]_vars

\* the run of one test with its fixtures
NextFixture == FixtureStep

SpecFixture == InitApiCall /\ [][NextFixture]_vars

\* the run goes on while a step is enabled: the runner awaits every step
SpecFixtureFair == SpecFixture /\ WF_vars(NextFixture)

\* one call of generateRandomUsername
NextUsername == UsernameStep

SpecUsername == InitApiCall /\ [][NextUsername]_vars

\* a process run that generates several usernames
NextUsernameRun ==
    \/ UsernameStep
    \/ CallAgain

SpecUsernameRun == InitApiCall /\ [][NextUsernameRun]_vars

\* one call of fillRegistrationForm
NextForm == FormStep

SpecForm == InitApiCall /\ [][NextForm]_vars

\* the configuration is loaded and a page navigates
NextNav == NavStep

SpecNav == InitApiCall /\ [][NextNav]_vars

\* the serial login block beside another worker (fullyParallel: true,
\* workers: undefined)
NextLogin == LoginStep

SpecLogin == Init /\ [][NextLogin]_vars

(***************************************************************************)
(* Properties of the credential store.                                     *)
(***************************************************************************)
HoldsArray == HoldsArrayIn(file)

\* the twelve identity/account fields of a record are those of an argument list
FieldsMatch(record, a) ==
    \A i \in 1..Len(CredentialFields) :
        Get(record, CredentialFields[i]) = Get(a, CredentialFields[i])

GotLatest(w) == pc[w] = "idle" /\ ret[w].op = "getLatestCredentials"

\* C1: with a single writer and a file that was absent or held a JSON array,
\* getLatestCredentials() after saveCredentials(r) returns a record whose
\* twelve identity/account fields are those passed to saveCredentials.
SaveThenLatestReturnsSaved ==
    \A w \in Workers :
        (GotLatest(w) /\ args[w] # NoArgs /\ HoldsArray)
            => /\ ret[w].outcome = "returned"
               /\ FieldsMatch(ret[w].value, args[w])

\* a save on top of an earlier record, then a read that returned
SavedThenRead ==
    /\ GotLatest("w1")
    /\ ret["w1"].outcome = "returned"
    /\ args["w1"] # NoArgs
    /\ Len(Records) = 2
    /\ Get(ret["w1"].value, "checkingAccountId") = Undefined

\* C2: with a single writer every change of the file keeps the stored records
\* unchanged and in order, and adds exactly one record after them, the one of
\* the saveCredentials call that wrote.
AppendOnly ==
    [][file' # file =>
          \A old \in {Records} : \A new \in {RecordsIn(file')} :
              /\ Len(new) = Len(old) + 1
              /\ SubSeq(new, 1, Len(old)) = old
              /\ \E w \in Workers :
                    /\ pc[w] = "save_write"
                    /\ pc'[w] = "idle"
                    /\ FieldsMatch(new[Len(new)], args[w])]_vars

\* two saves on top of the record of an earlier run
TwoAppended ==
    /\ Len(Records) = 3
    /\ Records[1] = PriorRecord
    /\ calls = 2

\* C3: getLatestCredentials throws 'credentials.json does not exist' when the
\* file is absent and 'No saved credentials found' when the file holds [];
\* it returns no value in either case.
LatestFailsWithoutRecords ==
    \A w \in Workers :
        GotLatest(w) =>
            /\ ~file.exists =>
                  ret[w] = Threw("getLatestCredentials",
                                 Error("credentials.json does not exist"))
            /\ (HoldsArray /\ Records = <<>>) =>
                  ret[w] = Threw("getLatestCredentials",
                                 Error("No saved credentials found"))

\* a read of a file that holds []
ReadEmptyArray ==
    /\ GotLatest("w1")
    /\ HoldsArray
    /\ Records = <<>>
    /\ ret["w1"].outcome = "threw"

\* the errors of the "not found" cases: absent file, empty file, no records
NotFoundErrors ==
    { Error("credentials.json does not exist"),
      Error("credentials.json is empty"),
      Error("No saved credentials found") }

\* C4: when the file exists, is not empty and does not hold a JSON array,
\* getLatestCredentials fails with an error that is none of the "not found"
\* errors.
MalformedIsDistinct ==
    \A w \in Workers :
        (GotLatest(w) /\ file.exists /\ Trim(file.content) # <<>> /\ ~HoldsArray)
            => /\ ret[w].outcome = "threw"
               /\ ret[w].error \notin NotFoundErrors

\* number of elements of a sequence equal to x
Count(x, seq) == Cardinality({i \in 1..Len(seq) : seq[i] = x})

\* worker w has read the array; then worker o appended its record to that
\* array, which gave the array old
WroteAfterRead(o, w, old) ==
    /\ Len(old) = Len(data[w].a) + 1
    /\ SubSeq(old, 1, Len(data[w].a)) = data[w].a
    /\ FieldsMatch(old[Len(old)], args[o])

\* C5: no lock: when a worker writes after another worker has written since
\* it read, its write replaces the whole file with what it read plus its own
\* record; the file does not grow and the other worker's record is gone.
LostUpdate ==
    [][\A w \in Workers : \A o \in Workers \ {w} :
          ( /\ pc[w] = "save_write"
            /\ pc'[w] = "idle"
            /\ IsArray(data[w])
            /\ pc[o] = "idle"
            /\ ret[o] = Returned("saveCredentials", Undefined) ) =>
              \A old \in {Records} :
                  WroteAfterRead(o, w, old) =>
                      \A new \in {RecordsIn(file')} :
                          /\ Len(new) = Len(old)
                          /\ SubSeq(new, 1, Len(data[w].a)) = data[w].a
                          /\ FieldsMatch(new[Len(new)], args[w])
                          /\ \/ new[Len(new)] = old[Len(old)]
                             \/ Count(old[Len(old)], new) < Count(old[Len(old)], old)]_vars

\* both workers have saved, and the file holds one record less than they added
RecordLost ==
    /\ \A w \in Workers :
          pc[w] = "idle" /\ ret[w] = Returned("saveCredentials", Undefined)
    /\ calls = 2
    /\ Len(Records) = 2
    /\ Records[1] = PriorRecord

AllFields == CredentialFields \o <<"createdAt">>

\* C6: every element of the credential file has all thirteen fields, so the
\* latest record always yields checkingAccountId and savingsAccountId.
EveryRecordComplete ==
    \A i \in 1..Len(Records) :
        \A k \in 1..Len(AllFields) : HasKey(Records[i], AllFields[k])

(***************************************************************************)
(* Properties of the HTTP request adapter.                                 *)
(***************************************************************************)
SupportedVerbs == {POST, GET, PUT, DELETE, PATCH}

\* C7: for a method that, upper-cased, is none of GET/POST/PUT/DELETE/PATCH,
\* apiRequest throws an 'Unsupported HTTP method' error and makes no call on
\* the transport.
UnsupportedMethodFailsFast ==
    (apiPc # "idle" /\ toUpperCase(apiIn.method) \notin SupportedVerbs)
        => /\ apiPc = "done"
           /\ apiOut.outcome = "threw"
           /\ apiOut.error.name = "Error"
           /\ apiOut.error.message \in
                 { "Unsupported HTTP method: " \o Join(toUpperCase(apiIn.method)),
                   "Unsupported HTTP method: " \o Join(apiIn.method) }
           /\ sent = <<>>

\* a call with the method HEAD has ended
HeadRefused ==
    /\ apiPc = "done"
    /\ apiIn.method = <<"H", "E", "A", "D">>
    /\ apiOut.outcome = "threw"
    /\ sent = <<>>

\* C8: whatever text the response has, apiRequest returns, and the body it
\* returns is the JSON decoding of the text when the text is well-formed JSON
\* and the text itself otherwise, the empty text included.
BodyIsJsonOrRawText ==
    (apiPc = "done" /\ net.text = "resolved")
        => /\ apiOut.outcome = "returned"
           /\ \E r \in {JSONparse(net.rawText)} :
                 Get(apiOut.value, "body") = (IF r.ok THEN r.v ELSE Text(net.rawText))

\* C9: a failure of the transport, in the verb call or in reading the
\* response, reaches the caller of apiRequest as the error it was.
TransportFailuresPropagate ==
    (apiPc = "done" /\ (net.verb = "rejected" \/ net.text = "rejected"))
        => apiOut = ApiThrew(net.error)

\* header names that mean Content-Type (header names ignore case)
ContentTypeNames == {"Content-Type", "content-type"}

\* the content types among the properties of a header map
ContentTypes(p) ==
    {p[i] : i \in {j \in 1..Len(p) : p[j][1] \in ContentTypeNames}}

\* the content types the caller supplied
SuppliedContentTypes ==
    IF apiIn.headers.t = "object" THEN ContentTypes(apiIn.headers.p) ELSE {}

\* C10: with a body and isFormData = false the dispatched request carries the
\* body as JSON data, with Content-Type application/json unless the caller
\* supplied a content type, and then with the caller's content type alone;
\* with a body and isFormData = true it carries the body as form parameters
\* and no JSON data.
BodyEncoding ==
    (sent # <<>> /\ Truthy(apiIn.body)) =>
        \E o \in {sent[1].options} :
            IF apiIn.isFormData
            THEN o.form = apiIn.body /\ o.data = Undefined
            ELSE /\ o.data = apiIn.body
                 /\ o.form = Undefined
                 /\ ContentTypes(o.headers.p) =
                        (IF SuppliedContentTypes = {}
                         THEN { <<"Content-Type", Str("application/json")>> }
                         ELSE SuppliedContentTypes)

\* C11: every request apiRequest dispatches has maxRedirects = 0, whatever the
\* method, headers, body and isFormData, and the status the transport gives
\* (a 302 included) is the status apiRequest returns.
RedirectsNotFollowed ==
    /\ \A i \in 1..Len(sent) : sent[i].options.maxRedirects = 0
    /\ (apiPc = "done" /\ apiOut.outcome = "returned")
          => Get(apiOut.value, "status") = Num(net.response.status)

\* a call whose headers name maxRedirects has returned a 302
RedirectReturned ==
    /\ apiPc = "done"
    /\ apiOut.outcome = "returned"
    /\ Get(apiOut.value, "status") = Num(302)
    /\ HasKey(apiIn.headers, "maxRedirects")
    /\ sent[1].options.maxRedirects = 0

SendsJson == Truthy(apiIn.body) /\ ~apiIn.isFormData

SetCookieEntries ==
    LET v == Get(ckHeaders, "set-cookie") IN
    IF v.t = "chars" THEN (IF v.c = <<>> THEN <<>> ELSE <<v.c>>)
    ELSE IF v.t = "array" THEN [i \in 1..Len(v.a) |-> v.a[i].c]
    ELSE <<>>

SameLetter(c, d) ==
    c = d \/ \E k \in 1..Len(LowerCase) : {c, d} = {LowerCase[k], UpperCase[k]}

SameIgnoringCase(a, b) ==
    Len(a) = Len(b) /\ \A i \in 1..Len(a) : SameLetter(a[i], b[i])

\* the name segment of entry e, surrounding whitespace of the entry aside, is
\* name ignoring case: e[first..last] is the segment, ended by the first "="
\* or by the end of the entry
NameSegmentIs(e, name) ==
    \E first \in 1..(Len(e) + 1) : \E last \in (first - 1)..Len(e) :
        /\ \A i \in 1..(first - 1) : IsSpace(e[i])
        /\ first <= Len(e) => ~IsSpace(e[first])
        /\ \A i \in first..last : e[i] # "="
        /\ \/ last < Len(e) /\ e[last + 1] = "="
           \/ /\ \A i \in (last + 1)..Len(e) : IsSpace(e[i])
              /\ last >= first => ~IsSpace(e[last])
        /\ SameIgnoringCase(SubSeq(e, first, last), name)

\* r is the text of entry e before its first semicolon
BeforeFirstSemicolon(r, e) ==
    /\ Len(r) <= Len(e)
    /\ r = SubSeq(e, 1, Len(r))
    /\ \A i \in 1..Len(r) : r[i] # ";"
    /\ Len(r) < Len(e) => e[Len(r) + 1] = ";"

DoneBefore(by, step, j) ==
    \E i \in 1..(j - 1) : events[i] = [by |-> by, step |-> step]

Did(by, step) == DoneBefore(by, step, Len(events) + 1)

\* the values of fixture f its consumers were handed
Handed(f) == {r \in received : r[2] = f}

\* the run is in or past the test body
InBody == tPc \in {"body", "passed", "b_generate", "b_register", "b_save", "b_verify"}

InitializerCompletesFirst ==
    \A j \in 1..Len(events) :
        /\ (events[j].by # USER /\ USER \in Needed(tKind.requests)) =>
              \A step \in {"welcome_visible", "saveCredentials",
                           "getFirstAccountId", "clickLogout", "use"} :
                  DoneBefore(USER, step, j)
        /\ (events[j].by \in {API, "test"} /\ SAVINGS \in Needed(tKind.requests)) =>
              DoneBefore(SAVINGS, "use", j)

\* the savings fixture logged in after the user fixture had logged out
SavingsAfterLogout ==
    /\ tPc = "passed"
    /\ tKind.name = "TC-06"
    /\ \E i, j \in 1..Len(events) :
          /\ i < j
          /\ events[i] = [by |-> USER, step |-> "clickLogout"]
          /\ events[j] = [by |-> SAVINGS, step |-> "login"]

\* C16: savingsAccountCreationFixture hands on no empty savingsAccountId:
\* when the identifier it read is empty it throws an error that names the
\* user, its value is never passed to use(), and neither a dependent nor the
\* test body runs.
SavingsIdNeverEmpty ==
    /\ fxState[SAVINGS] = "ready" => fxValue[SAVINGS].savingsAccountId # ""
    /\ \A r \in Handed(SAVINGS) : r[3].savingsAccountId # ""
    /\ ( /\ Did(SAVINGS, "getNewAccountId")
         /\ tPc # "s_check"
         /\ tError # "locator.waitFor: Timeout exceeded"
         /\ locals.savingsAccountId = "" ) =>
            /\ tPc = "failed"
            /\ tError = SetupFailed(identities[1].username)
            /\ fxState[SAVINGS] # "ready"
            /\ ~Did(API, "use")
            /\ ~Did("test", "body")

\* the new account link was empty and the fixture threw
SavingsSetupFailed ==
    /\ tPc = "failed"
    /\ Did(SAVINGS, "throw")
    /\ locals.savingsAccountId = ""
    /\ tError = SetupFailed(identities[1].username)

\* C17: userCreationFixture hands on no empty checkingAccountId: when the
\* discovery of the default account yields an empty identifier the fixture
\* fails the test, and no consumer is handed the value.
CheckingIdNeverEmpty ==
    /\ fxState[USER] = "ready" => fxValue[USER].checkingAccountId # ""
    /\ \A r \in Handed(USER) : r[3].checkingAccountId # ""

InToPass == tPc \in {"u_toPass", "u_wait"}

ToPassFailed == tError = "toPass: timeout 10000ms exceeded"

\* C18: the toPass block of userCreationFixture makes a bounded number of
\* attempts, waits 1000 ms after the first failed attempt and 2000 ms after
\* each later one, stays within 10000 ms, and always ends: with the welcome
\* title visible, and setup goes on, or with the fixture failed, and then
\* neither the credential save nor the test body ever runs.
RetryIsBoundedAndEnds ==
    /\ [](attempts <= ToPassTimeout \div Intervals[1])
    /\ [](elapsed <= ToPassTimeout)
    /\ [](\A i \in 1..Len(waits) :
             waits[i] = (IF i = 1 THEN Intervals[1] ELSE Intervals[2]))
    /\ [](ToPassFailed =>
             /\ tPc = "failed"
             /\ fxState[USER] # "ready"
             /\ ~Did(USER, "saveCredentials")
             /\ ~Did("test", "body"))
    /\ [](Did(USER, "saveCredentials") => Did(USER, "welcome_visible"))
    /\ (InToPass ~> (~InToPass /\ (ToPassFailed \/ Did(USER, "welcome_visible"))))

\* the retries were exhausted after a 1000 ms and 2000 ms waits
RetriesExhausted ==
    /\ tPc = "failed"
    /\ ToPassFailed
    /\ attempts = 4
    /\ waits = <<1000, 2000, 2000>>

\* C19: every credential record is appended after the application accepted
\* the registration it records: the username of every saveCredentials call
\* is one the application registered in this run.
SavedOnlyWhenRegistered ==
    \A i \in 1..Len(appended) : appended[i].username \in app.registered

(***************************************************************************)
(* Properties of generateRandomUsername.                                   *)
(***************************************************************************)
OnlyAlphanumeric(s) == \A i \in 1..Len(s) : IsAlphanumeric(s[i])

UsernamesUniquePerRun ==
    \A i, j \in 1..Len(unReturned) :
        i # j => unReturned[i] # unReturned[j]

(***************************************************************************)
(* Properties of the generated identities.                                 *)
(***************************************************************************)
\* C22: for every identity generateRandomUser produces, confirmPassword
\* equals password.
ConfirmationMirrorsPassword ==
    \A i \in 1..Len(identities) :
        identities[i].confirmPassword = identities[i].password

\* the user fixture has generated its identity
IdentityGenerated ==
    /\ Len(identities) = 1
    /\ identities[1] \in Identities
    /\ Did(USER, "generateRandomUser")
    /\ identities[1].confirmPassword # ""

FlattenedFields == {"street", "city", "state", "zipCode"}

PersistedFields ==
    << <<"username", "username">>, <<"password", "password">>,
       <<"firstName", "firstName">>, <<"lastName", "lastName">>,
       <<"phoneNumber", "phoneNumber">>, <<"ssn", "ssn">>,
       <<"address", "street">>, <<"city", "city">>, <<"state", "state">>,
       <<"zipCode", "zipCode">> >>

\* C23: the value userCreationFixture exposes has the nested address and the
\* flattened street, city, state and zipCode, each flattened field equal to
\* the nested one, and its username, password, names, phoneNumber and ssn are
\* those of the identity that was generated, submitted and persisted.
UserValueHasBothViews ==
    fxState[USER] = "ready" =>
        \A v \in {fxValue[USER]} : \A u \in {identities[1]} :
            /\ FlattenedFields \cup {"address"} \subseteq DOMAIN v
            /\ v.address = u.address
            /\ \A k \in FlattenedFields : v[k] = v.address[k]
            /\ \A k \in {"username", "password", "firstName", "lastName",
                         "phoneNumber", "ssn", "confirmPassword"} :
                  v[k] = u[k]
            /\ \E i \in 1..Len(appended) :
                  /\ appended[i].by = USER
                  /\ \A j \in 1..Len(PersistedFields) :
                        Get(appended[i].args, PersistedFields[j][1])
                            = Str(v[PersistedFields[j][2]])

\* the body of a test has the user fixture's value, with both views
BothViewsHanded ==
    /\ InBody
    /\ \E r \in Handed(USER) :
          /\ r[1] = "test"
          /\ r[3].street = r[3].address.street
          /\ r[3].zipCode = identities[1].address.zipCode

IsUserStep(e) == e.by = USER /\ e.step # "attempt_failed"

\* the steps userCreationFixture has completed, failed attempts left out
UserEventsOf(evs) == SelectSeq(evs, IsUserStep)

SetupOrder ==
    << [by |-> USER, step |-> "generateRandomUser"],
       [by |-> USER, step |-> "clickRegisterLink"],
       [by |-> USER, step |-> "welcome_visible"],
       [by |-> USER, step |-> "saveCredentials"],
       [by |-> USER, step |-> "getFirstAccountId"],
       [by |-> USER, step |-> "clickLogout"],
       [by |-> USER, step |-> "use"] >>

PlainDataKeys ==
    {"firstName", "lastName", "address", "phoneNumber", "ssn", "username",
     "password", "confirmPassword", "street", "city", "state", "zipCode",
     "checkingAccountId"}

SavingsFundedFromChecking ==
    \A i \in 1..Len(app.opened) :
        /\ app.opened[i].type = "SAVINGS"
        /\ app.opened[i].from = fxValue[USER].checkingAccountId
        /\ app.opened[i].from # DefaultSelection

(***************************************************************************)
(* Properties of fillRegistrationForm.                                     *)
(***************************************************************************)
FormFilled == rfPc = Len(FormInputs) + 2

\* C28: the confirmation input receives the password only when userData has
\* no confirmPassword; whenever confirmPassword is given, the empty string
\* included, the input receives exactly that value.
ConfirmationIsCallersValue ==
    FormFilled =>
        rfInputs[ConfirmInput] =
            (IF rfUserData.confirmPassword.t \in {"undefined", "null"}
             THEN rfUserData.password
             ELSE rfUserData.confirmPassword.s)

(***************************************************************************)
(* Properties of the configuration and of navigateTo.                      *)
(***************************************************************************)
\* C24: a missing base URL fails fast: when APP_BASE_URL is not set, the
\* configuration yields no base URL to run against and navigateTo never
\* navigates.
MissingBaseUrlFailsFast ==
    (navPc # "idle" /\ ~Truthy(navEnv)) =>
        /\ navConfig.baseURL = <<>>
        /\ navOut.outcome # "goto"

RECURSIVE TrailingSlashes(_)
TrailingSlashes(s) ==
    IF s # <<>> /\ s[Len(s)] = "/"
    THEN 1 + TrailingSlashes(SubSeq(s, 1, Len(s) - 1))
    ELSE 0

RECURSIVE LeadingSlashes(_)
LeadingSlashes(s) ==
    IF s # <<>> /\ s[1] = "/" THEN 1 + LeadingSlashes(Tail(s)) ELSE 0

\* the base without the slashes at its end, the path without those at its start
Stem(base) == SubSeq(base, 1, Len(base) - TrailingSlashes(base))
Rest(path) == SubSeq(path, LeadingSlashes(path) + 1, Len(path))

BlockReadsItsOwnRecord ==
    ( /\ blk = "done"
      /\ pc[BlockWorker] = "idle"
      /\ ret[BlockWorker].op = "getLatestCredentials" ) =>
        /\ ret[BlockWorker].outcome = "returned"
        /\ FieldsMatch(ret[BlockWorker].value, args[BlockWorker])

\* C30: while the credential file exists and does not hold a JSON array (it
\* is empty, is not JSON, or holds another JSON value), no step changes it,
\* and a saveCredentials call that ends, ends with an error.
SaveLeavesNonArrayFile ==
    [][ /\ \/ file' = file
           \/ ~file.exists
           \/ HoldsArrayIn(file)
        /\ \A w \in Workers :
              ( /\ pc[w] \in {"save_read", "save_write"}
                /\ pc'[w] = "idle"
                /\ file.exists
                /\ ~HoldsArrayIn(file) ) =>
                  /\ ret'[w].op = "saveCredentials"
                  /\ ret'[w].outcome = "threw"
                  /\ file' = file
      ]_vars

\* saveCredentials has failed on a file that holds {}, and the file still does
SaveFailedOnObject ==
    /\ pc["w1"] = "idle"
    /\ ret["w1"].op = "saveCredentials"
    /\ ret["w1"].outcome = "threw"
    /\ file = Present(<<LC, RC>>)

====
